---- MODULE Spec2Model ----
(***************************************************************************)
(* Model of the arXiv adapter (src/academic_platforms/arxiv.py) and of the *)
(* tool-call boundary (src/server.py).                                     *)
(*                                                                         *)
(* Text that the code takes apart character by character (entry ids,       *)
(* timestamps, page texts) is a sequence of one-character strings; text    *)
(* the code only copies (titles, hrefs, names) is an atomic string.        *)
(***************************************************************************)
EXTENDS Integers, Sequences, FiniteSets, TLC

(* ------------------------------ bounds --------------------------------- *)
\* number of concurrent tool calls in Spec
NumCalls == 2
\* longest feed (entries) a remote answer carries in SearchSpec
MaxEntries == 3
\* longest document (pages) a remote answer carries in ReadSpec
MaxPages == 3
\* largest max_results argument a caller passes
MaxResultsArg == 2

(* --------------------------- character helpers ------------------------- *)
DigitSeq == <<"0", "1", "2", "3", "4", "5", "6", "7", "8", "9">>

Digits == {DigitSeq[i] : i \in 1..10}

DigitVal(c) == (CHOOSE i \in 1..10 : DigitSeq[i] = c) - 1

\* value of the run of n digits of s starting at i (n is 1, 2 or 4)
RECURSIVE NumAt(_, _, _)
NumAt(s, i, n) ==
    IF n = 0 THEN 0
    ELSE 10 * NumAt(s, i, n - 1) + DigitVal(s[i + n - 1])

IsLeap(y) == (y % 4 = 0 /\ y % 100 # 0) \/ y % 400 = 0

DaysInMonth(y, m) ==
    IF m = 2 THEN (IF IsLeap(y) THEN 29 ELSE 28)
    ELSE IF m \in {4, 6, 9, 11} THEN 30
    ELSE 31

\* the value of the directive of n characters at i: digits, or for %d a
\* space and a digit
FieldVal(s, i, n) ==
    IF s[i] = " " THEN NumAt(s, i + 1, n - 1) ELSE NumAt(s, i, n)

\* the pattern strptime compiles from '%Y-%m-%dT%H:%M:%SZ', for one choice
\* of the alternatives (field lengths lm ld lH lM lS):
\*   %Y \d\d\d\d            %m 1[0-2]|0[1-9]|[1-9]
\*   %d 3[01]|[12]\d|0[1-9]|[1-9]| [1-9]
\*   %H 2[0-3]|[0-1]\d|\d   %M [0-5]\d|\d      %S 6[0-1]|[0-5]\d|\d
\* with the literals matched in either case and nothing left over
Matches(s, lm, ld, lH, lM, lS) ==
    LET pm == 6
        pd == pm + lm + 1
        pH == pd + ld + 1
        pM == pH + lH + 1
        pS == pM + lM + 1
        AllDigits(i, n) == \A k \in i..(i + n - 1) : s[k] \in Digits
    IN  /\ Len(s) = pS + lS
        /\ AllDigits(1, 4) /\ s[5] = "-"
        /\ AllDigits(pm, lm) /\ s[pm + lm] = "-"
        /\ NumAt(s, pm, lm) \in 1..12
        /\ \/ AllDigits(pd, ld) /\ NumAt(s, pd, ld) \in 1..31
           \/ ld = 2 /\ s[pd] = " " /\ s[pd + 1] \in Digits \ {"0"}
        /\ s[pd + ld] \in {"T", "t"}
        /\ AllDigits(pH, lH) /\ s[pH + lH] = ":"
        /\ NumAt(s, pH, lH) \in 0..23
        /\ AllDigits(pM, lM) /\ s[pM + lM] = ":"
        /\ NumAt(s, pM, lM) \in 0..59
        /\ AllDigits(pS, lS) /\ s[pS + lS] \in {"Z", "z"}
        /\ NumAt(s, pS, lS) \in 0..61

NoDatetime ==
    [ok |-> FALSE, Y |-> 0, m |-> 0, d |-> 0, H |-> 0, M |-> 0, S |-> 0]

\* datetime(Y, m, d, H, M, S) for the fields of a match; ok = FALSE stands
\* for the ValueError it raises for year 0, a day the month does not have
\* or a second above 59
Datetime(Y, m, d, H, M, S) ==
    IF Y >= 1 /\ d <= DaysInMonth(Y, m) /\ S <= 59
    THEN [ok |-> TRUE, Y |-> Y, m |-> m, d |-> d, H |-> H, M |-> M, S |-> S]
    ELSE NoDatetime

\* datetime.strptime(s, '%Y-%m-%dT%H:%M:%SZ'): ok = FALSE stands for the
\* ValueError (no match, unconverted data, or a field datetime() rejects)
Strptime(s) ==
    LET found == {l \in (1..2) \X (1..2) \X (1..2) \X (1..2) \X (1..2) :
                     Matches(s, l[1], l[2], l[3], l[4], l[5])}
    IN  IF found = {} THEN NoDatetime
        ELSE CHOOSE r \in
                 {Datetime(NumAt(s, 1, 4),
                           NumAt(s, 6, l[1]),
                           FieldVal(s, 7 + l[1], l[2]),
                           NumAt(s, 8 + l[1] + l[2], l[3]),
                           NumAt(s, 9 + l[1] + l[2] + l[3], l[4]),
                           NumAt(s, 10 + l[1] + l[2] + l[3] + l[4], l[5])) :
                     l \in found} : TRUE

\* str.split(sep): the segments between the separators, left to right; a
\* string without the separator is its own single segment
RECURSIVE SplitFrom(_, _, _, _)
SplitFrom(s, sep, i, cur) ==
    IF i > Len(s) THEN <<cur>>
    ELSE IF s[i] = sep THEN <<cur>> \o SplitFrom(s, sep, i + 1, <<>>)
    ELSE SplitFrom(s, sep, i + 1, Append(cur, s[i]))

Split(s, sep) == SplitFrom(s, sep, 1, <<>>)

\* seq[-1]
Last(seq) == seq[Len(seq)]

\* entry.id.split('/')[-1]
PaperIdOf(id) == Last(Split(id, "/"))

Whitespace == {" ", "\n", "\t", "\r"}

RECURSIVE LStrip(_)
LStrip(s) ==
    IF s # <<>> /\ s[1] \in Whitespace THEN LStrip(Tail(s)) ELSE s

RECURSIVE RStrip(_)
RStrip(s) ==
    IF s # <<>> /\ s[Len(s)] \in Whitespace
    THEN RStrip(SubSeq(s, 1, Len(s) - 1))
    ELSE s

\* str.strip()
Strip(s) == RStrip(LStrip(s))

(* ------------------------- sample remote data -------------------------- *)
\* timestamps as the feed carries them
TsGood == <<"2", "0", "2", "1", "-", "0", "7", "-", "2", "6", "T", "1", "7", ":", "5", "9", ":", "5", "9", "Z">>

TsLater == <<"2", "0", "2", "1", "-", "0", "8", "-", "0", "2", "T", "0", "9", ":", "0", "0", ":", "0", "0", "Z">>

\* single-digit fields and lower-case literals, which strptime accepts
TsShort == <<"2", "0", "2", "0", "-", "2", "-", "2", "9", "t", "7", ":", "9", ":", "9", "z">>

\* an offset instead of the literal Z
TsOffset == <<"2", "0", "2", "1", "-", "0", "7", "-", "2", "6", "T", "1", "7", ":", "5", "9", ":", "5", "9", "+", "0", "0", ":", "0", "0">>

\* matches the pattern, but the day does not exist
TsFeb30 == <<"2", "0", "2", "1", "-", "0", "2", "-", "3", "0", "T", "0", "0", ":", "0", "0", ":", "0", "0", "Z">>

\* a date without a time
TsDateOnly == <<"2", "0", "2", "1", "-", "0", "7", "-", "2", "6">>

\* entry identifiers
IdAbs == <<"h", "t", "t", "p", ":", "/", "/", "a", "r", "x", "i", "v", ".", "o", "r", "g", "/", "a", "b", "s", "/", "2", "1", "0", "7", ".", "1", "v", "1">>

IdAbs2 == <<"h", "t", "t", "p", ":", "/", "/", "a", "r", "x", "i", "v", ".", "o", "r", "g", "/", "a", "b", "s", "/", "c", "s", "/", "0", "1", "1", "2", "0", "1", "7", "v", "2">>

\* no '/' at all
IdBare == <<"2", "1", "0", "7", ".", "2">>

\* ends with '/'
IdSlash == <<"h", "t", "t", "p", ":", "/", "/", "a", "r", "x", "i", "v", ".", "o", "r", "g", "/", "a", "b", "s", "/">>

PdfType == "application/pdf"

HtmlLink == [hasHref |-> TRUE, href |-> "http://arxiv.org/abs/x", type |-> "text/html"]

PdfLink1 == [hasHref |-> TRUE, href |-> "http://arxiv.org/pdf/x1", type |-> PdfType]

PdfLink2 == [hasHref |-> TRUE, href |-> "http://arxiv.org/pdf/x2", type |-> PdfType]

\* a link element without an href attribute
PdfLinkNoHref == [hasHref |-> FALSE, href |-> "", type |-> PdfType]

Author(n) == [hasName |-> TRUE, name |-> n]

\* an author element that carries only an e-mail address
AuthorNoName == [hasName |-> FALSE, name |-> ""]

\* the keys search reads from an entry; has is the set of keys the entry holds
EntryKeys == {"authors", "published", "updated", "links", "id", "title",
              "summary", "tags", "doi"}

EntryA ==
    [has |-> EntryKeys \ {"doi"}, id |-> IdAbs, title |-> "A", summary |-> "sa",
     authors |-> <<Author("x"), Author("y")>>,
     published |-> TsGood, updated |-> TsLater,
     links |-> <<HtmlLink, PdfLink1, PdfLink2>>,
     tags |-> <<"cs.LG", "stat.ML">>, doi |-> ""]

EntryB ==
    [has |-> EntryKeys, id |-> IdAbs2, title |-> "B", summary |-> "",
     authors |-> <<Author("z")>>,
     published |-> TsShort, updated |-> TsShort,
     links |-> <<PdfLink2, HtmlLink, PdfLink1>>,
     tags |-> <<"math.CO">>, doi |-> "10.1/b"]

\* no application/pdf link, an identifier without '/'
EntryC ==
    [EntryA EXCEPT !.id = IdBare, !.title = "C", !.links = <<HtmlLink>>,
                   !.authors = <<>>, !.tags = <<>>]

EntryIdSlash == [EntryA EXCEPT !.id = IdSlash, !.title = "D"]

EntryNoPublished == [EntryA EXCEPT !.has = @ \ {"published"}, !.title = "E"]

EntryBadPublished == [EntryA EXCEPT !.published = TsOffset, !.title = "F"]

EntryBadUpdated == [EntryB EXCEPT !.updated = TsFeb30, !.title = "G"]

EntryNoUpdated == [EntryB EXCEPT !.has = @ \ {"updated"}, !.title = "H"]

EntryNoAuthors == [EntryA EXCEPT !.has = @ \ {"authors"}, !.title = "I"]

EntryAuthorNoName ==
    [EntryA EXCEPT !.authors = <<Author("x"), AuthorNoName>>, !.title = "J"]

EntryNoLinks == [EntryA EXCEPT !.has = @ \ {"links"}, !.title = "K"]

EntryPdfNoHref ==
    [EntryA EXCEPT !.links = <<HtmlLink, PdfLinkNoHref, PdfLink1>>, !.title = "L"]

EntryNoTags == [EntryB EXCEPT !.has = @ \ {"tags"}, !.title = "M"]

\* the entry of the error feed arXiv sends with a 400 status
EntryError ==
    [has |-> {"authors", "updated", "links", "id", "title", "summary"},
     id |-> IdAbs, title |-> "Error", summary |-> "bad query",
     authors |-> <<Author("arXiv api core")>>,
     published |-> <<>>, updated |-> TsDateOnly,
     links |-> <<HtmlLink>>, tags |-> <<>>, doi |-> ""]

Entries ==
    {EntryA, EntryB, EntryC, EntryIdSlash, EntryNoPublished, EntryBadPublished,
     EntryBadUpdated, EntryNoUpdated, EntryNoAuthors, EntryAuthorNoName,
     EntryNoLinks, EntryPdfNoHref, EntryNoTags, EntryError}

\* the entries of which feeds of every length are drawn
CoreEntries ==
    {EntryA, EntryB, EntryC, EntryIdSlash, EntryNoPublished, EntryBadPublished,
     EntryNoUpdated, EntryBadUpdated, EntryPdfNoHref}

\* all sequences over S of length at most n
SeqsUpTo(S, n) == UNION {[1..k -> S] : k \in 0..n}

(* ----------------------------- Paper record ---------------------------- *)
\* Paper(...): a plain value holding the twelve fields it is constructed with
Paper(paper_id, title, authors, abstract, url, pdf_url, published_date, updated_date, source, categories, keywords, doi) ==
    [paper_id |-> paper_id, title |-> title, authors |-> authors,
     abstract |-> abstract, url |-> url, pdf_url |-> pdf_url,
     published_date |-> published_date, updated_date |-> updated_date,
     source |-> source, categories |-> categories, keywords |-> keywords,
     doi |-> doi]

\* Paper.to_dict(): the mapping from field name to value
to_dict(paper) == [k \in DOMAIN paper |-> paper[k]]

(* ------------------------------ feed entries --------------------------- *)
\* attribute access on a feed entry raises AttributeError for a key the
\* entry does not hold
HasAttr(entry, key) == key \in entry.has

\* entry.updated: feedparser answers a missing 'updated' with 'published'
\* when the entry holds that key
HasUpdated(entry) == HasAttr(entry, "updated") \/ HasAttr(entry, "published")

GetUpdated(entry) ==
    IF HasAttr(entry, "updated") THEN entry.updated ELSE entry.published

\* entry.get('doi', '')
GetDoi(entry) == IF HasAttr(entry, "doi") THEN entry.doi ELSE ""

\* variant of PdfUrlFrom that takes the first link whatever its type
PdfUrlFromAnyType(links, i) ==
    IF i > Len(links) THEN [raised |-> FALSE, href |-> ""]
    ELSE IF links[i].hasHref
         THEN [raised |-> FALSE, href |-> links[i].href]
         ELSE [raised |-> TRUE, href |-> ""]

\* next((link.href for link in links if link.type == 'application/pdf'), ''):
\* links are tried in order from position i; the href of the first match is
\* read (raises when the link has none); '' when no link matches
RECURSIVE PdfUrlFrom(_, _)
PdfUrlFrom(links, i) ==
    IF i > Len(links) THEN [raised |-> FALSE, href |-> ""]
    ELSE IF links[i].type = PdfType
         THEN IF links[i].hasHref
              THEN [raised |-> FALSE, href |-> links[i].href]
              ELSE [raised |-> TRUE, href |-> ""]
         ELSE PdfUrlFrom(links, i + 1)

PdfUrl(links) == PdfUrlFrom(links, 1)

NoPaper == [paper_id |-> <<>>]

\* the body of the try block for one entry: raised = TRUE when any of its
\* statements raises, in which case no Paper has been appended
ParseEntry(entry) ==
    IF \/ ~HasAttr(entry, "authors")
       \/ \E i \in 1..Len(entry.authors) : ~entry.authors[i].hasName
    THEN [raised |-> TRUE, paper |-> NoPaper]
    ELSE IF \/ ~HasAttr(entry, "published")
            \/ ~Strptime(entry.published).ok
    THEN [raised |-> TRUE, paper |-> NoPaper]
    ELSE IF \/ ~HasUpdated(entry)
            \/ ~Strptime(GetUpdated(entry)).ok
    THEN [raised |-> TRUE, paper |-> NoPaper]
    ELSE IF \/ ~HasAttr(entry, "links")
            \/ PdfUrl(entry.links).raised
    THEN [raised |-> TRUE, paper |-> NoPaper]
    ELSE IF \/ ~HasAttr(entry, "id") \/ ~HasAttr(entry, "title")
            \/ ~HasAttr(entry, "summary") \/ ~HasAttr(entry, "tags")
    THEN [raised |-> TRUE, paper |-> NoPaper]
    ELSE [raised |-> FALSE,
          paper |-> Paper(PaperIdOf(entry.id),
                          entry.title,
                          [i \in 1..Len(entry.authors) |-> entry.authors[i].name],
                          entry.summary,
                          entry.id,
                          PdfUrl(entry.links).href,
                          Strptime(entry.published),
                          Strptime(GetUpdated(entry)),
                          "arxiv",
                          entry.tags,
                          <<>>,
                          GetDoi(entry))]

\* variant of ForEntries whose try block encloses the loop: the first entry
\* that raises ends the loop
RECURSIVE ForEntriesAbort(_, _, _, _)
ForEntriesAbort(entries, i, papers, printed) ==
    IF i > Len(entries) THEN [papers |-> papers, printed |-> printed]
    ELSE LET r == ParseEntry(entries[i])
         IN  IF r.raised
             THEN [papers |-> papers, printed |-> printed + 1]
             ELSE ForEntriesAbort(entries, i + 1, Append(papers, r.paper), printed)

\* variant of ForEntries that inserts each record at the front of the list
RECURSIVE ForEntriesPrepend(_, _, _, _)
ForEntriesPrepend(entries, i, papers, printed) ==
    IF i > Len(entries) THEN [papers |-> papers, printed |-> printed]
    ELSE LET r == ParseEntry(entries[i])
         IN  IF r.raised
             THEN ForEntriesPrepend(entries, i + 1, papers, printed + 1)
             ELSE ForEntriesPrepend(entries, i + 1, <<r.paper>> \o papers, printed)

\* the for loop over feed.entries from position i on: papers collects the
\* records appended so far, printed counts the diagnostics written
RECURSIVE ForEntries(_, _, _, _)
ForEntries(entries, i, papers, printed) ==
    IF i > Len(entries) THEN [papers |-> papers, printed |-> printed]
    ELSE LET r == ParseEntry(entries[i])
         IN  IF r.raised
             THEN ForEntries(entries, i + 1, papers, printed + 1)
             ELSE ForEntries(entries, i + 1, Append(papers, r.paper), printed)

\* An answer of the remote side to one request.  err: requests.get raised (no
\* answer was received).  Otherwise status is the HTTP status and the body is
\* given by what the libraries make of it: entries is feedparser's list of
\* entries, pdfok tells whether PdfReader accepts the bytes, pages its pages.
Response(err, status, entries, pdfok, pages) ==
    [err |-> err, status |-> status, entries |-> entries, pdfok |-> pdfok,
     pages |-> pages]

NoResponse == Response(FALSE, 0, <<>>, FALSE, <<>>)

\* ArxivSearcher.search: raised = TRUE when the call raises to its caller
search(query, max_results, resp) ==
    IF resp.err THEN [raised |-> TRUE, value |-> <<>>, printed |-> 0]
    ELSE LET r == ForEntries(resp.entries, 1, <<>>, 0)
         IN  [raised |-> FALSE, value |-> r.papers, printed |-> r.printed]

(* ------------------------------- read_paper ---------------------------- *)
\* a page of a decoded document: extract_text() raises or returns text
Page(raises, text) == [raises |-> raises, text |-> text]

\* variant of ForPages without the test for empty page text
RECURSIVE ForPagesNoTest(_, _, _)
ForPagesNoTest(pages, i, text) ==
    IF i > Len(pages) THEN [raised |-> FALSE, text |-> text]
    ELSE IF pages[i].raises THEN [raised |-> TRUE, text |-> text]
    ELSE ForPagesNoTest(pages, i + 1, text \o pages[i].text \o <<"\n">>)

\* the loop over reader.pages from position i on; text is the accumulator
RECURSIVE ForPages(_, _, _)
ForPages(pages, i, text) ==
    IF i > Len(pages) THEN [raised |-> FALSE, text |-> text]
    ELSE IF pages[i].raises THEN [raised |-> TRUE, text |-> text]
    ELSE IF pages[i].text # <<>>
         THEN ForPages(pages, i + 1, text \o pages[i].text \o <<"\n">>)
         ELSE ForPages(pages, i + 1, text)

\* response.raise_for_status(): raises for a 4xx or 5xx status
RaiseForStatus(status) == status >= 400 /\ status < 600

\* the body of the try block of read_paper
ReadPaperTry(resp) ==
    IF resp.err THEN [raised |-> TRUE, value |-> <<>>]
    ELSE IF RaiseForStatus(resp.status) THEN [raised |-> TRUE, value |-> <<>>]
    ELSE IF ~resp.pdfok THEN [raised |-> TRUE, value |-> <<>>]
    ELSE LET r == ForPages(resp.pages, 1, <<>>)
         IN  IF r.raised THEN [raised |-> TRUE, value |-> <<>>]
             ELSE [raised |-> FALSE, value |-> Strip(r.text)]

\* variant of read_paper without the except clause
ReadPaperNoExcept(paper_id, resp) ==
    LET t == ReadPaperTry(resp)
    IN  [raised |-> t.raised, value |-> t.value, printed |-> 0]

\* ArxivSearcher.read_paper: any exception of the try block is printed and
\* answered with the empty string
read_paper(paper_id, resp) ==
    LET t == ReadPaperTry(resp)
    IN  IF t.raised THEN [raised |-> FALSE, value |-> <<>>, printed |-> 1]
        ELSE [raised |-> FALSE, value |-> t.value, printed |-> 0]

(* --------------------------- tool-call boundary ------------------------ *)
\* async_search_arxiv, given the outcome r of arxiv_searcher.search: an
\* exception passes through, a list is serialized record by record
async_search_arxiv(r) ==
    IF r.raised THEN [raised |-> TRUE, value |-> <<>>, printed |-> r.printed]
    ELSE [raised |-> FALSE,
          value |-> [i \in 1..Len(r.value) |-> to_dict(r.value[i])],
          printed |-> r.printed]

\* search_arxiv, given the outcome r of arxiv_searcher.search
search_arxiv(r) ==
    LET papers == async_search_arxiv(r)
    IN  IF papers.raised THEN papers
        ELSE [papers EXCEPT !.value = IF papers.value # <<>> THEN papers.value
                                      ELSE <<>>]

\* read_arxiv_paper, given the outcome r of arxiv_searcher.read_paper
read_arxiv_paper(r) ==
    IF r.raised THEN [raised |-> FALSE, value |-> <<>>, printed |-> r.printed + 1]
    ELSE r

(* ------------------------------ inputs --------------------------------- *)
Calls == 1..NumCalls

Queries == {"quantum computing"}

MaxResultsArgs == 1..MaxResultsArg

PaperIds == {"2107.1v1", "0000.00000"}

\* feed bodies of at most n entries: every sequence of core entries, and
\* every sample entry alone and between two well-formed entries
Feeds(n) ==
    {f \in SeqsUpTo(CoreEntries, n)
           \cup {<<e>> : e \in Entries}
           \cup {<<EntryA, e, EntryB>> : e \in Entries} : Len(f) <= n}

\* answers to a search request: a feed with status 200, or a non-success
\* status whose body holds no entry or arXiv's error entry
SearchAnswers(feeds) ==
    {Response(FALSE, 200, f, FALSE, <<>>) : f \in feeds}
    \cup {Response(FALSE, st, f, FALSE, <<>>) :
             st \in {400, 503}, f \in {<<>>, <<EntryError>>}}

PageTexts == {<<>>, <<"a">>, <<"b", "\n">>, <<" ">>, <<" ", "c", " ">>}

Pages == {Page(FALSE, t) : t \in PageTexts} \cup {Page(TRUE, <<>>)}

\* documents of at most n pages
Documents(n) == SeqsUpTo(Pages, n)

\* answers to a PDF request: a decodable document, bytes PdfReader rejects,
\* or an error status
PdfAnswers(docs) ==
    {Response(FALSE, 200, <<>>, TRUE, d) : d \in docs}
    \cup {Response(FALSE, 200, <<>>, FALSE, <<>>)}
    \cup {Response(FALSE, st, <<>>, FALSE, <<>>) : st \in {404, 500}}

\* the answers drawn when several calls run together
SampleFeeds ==
    {<<EntryA>>, <<EntryB, EntryNoPublished, EntryC>>}

SampleDocuments ==
    {<<Page(FALSE, <<"a">>), Page(FALSE, <<>>), Page(FALSE, <<"b", "\n">>)>>}

SampleSearchAnswers ==
    {Response(FALSE, 200, f, FALSE, <<>>) : f \in SampleFeeds}
    \cup {Response(FALSE, 503, <<>>, FALSE, <<>>)}

SamplePdfAnswers ==
    {Response(FALSE, 200, <<>>, TRUE, d) : d \in SampleDocuments}
    \cup {Response(FALSE, 404, <<>>, FALSE, <<>>)}

\* the answers drawn when progress is checked
ProgressSearchAnswers ==
    {Response(FALSE, 200, <<EntryB, EntryNoPublished, EntryC>>, FALSE, <<>>)}

ProgressPdfAnswers ==
    {Response(FALSE, 200, <<>>, TRUE,
              <<Page(FALSE, <<"a">>), Page(FALSE, <<>>), Page(FALSE, <<"b", "\n">>)>>)}

TransportFailure == Response(TRUE, 0, <<>>, FALSE, <<>>)

(* ------------------------------- state --------------------------------- *)
VARIABLES
    pc,              \* position of each tool call
    kind,            \* the tool a call runs: "search_arxiv" or "read_arxiv_paper"
    args,            \* a call's arguments
    req,             \* the remote requests a call has issued, in order
    resp,            \* the remote answer to a call's request
    ret,             \* outcome of the adapter method inside a call
    out,             \* outcome of the tool call
    fin,             \* number of times a call has finished
    arxiv_searcher   \* attributes of the one shared ArxivSearcher instance

vars == <<pc, kind, args, req, resp, ret, out, fin, arxiv_searcher>>

BASE_URL == "http://export.arxiv.org/api/query"

\* ArxivSearcher(): the class defines no __init__; the instance has no attribute
ArxivSearcher == {}

NoArgs == [query |-> "", max_results |-> 0, paper_id |-> ""]

NoOutcome == [raised |-> FALSE, value |-> <<>>, printed |-> 0]

\* requests.get(self.BASE_URL, params=params)
SearchRequest(query, max_results) ==
    [url |-> BASE_URL,
     params |-> [search_query |-> query, max_results |-> max_results,
                 sortBy |-> "submittedDate", sortOrder |-> "descending"]]

\* requests.get(f"https://arxiv.org/pdf/{paper_id}.pdf")
PdfRequest(paper_id) ==
    [url |-> "https://arxiv.org/pdf/" \o paper_id \o ".pdf", params |-> <<>>]

Init ==
    /\ pc = [c \in Calls |-> "idle"]
    /\ kind = [c \in Calls |-> "none"]
    /\ args = [c \in Calls |-> NoArgs]
    /\ req = [c \in Calls |-> <<>>]
    /\ resp = [c \in Calls |-> NoResponse]
    /\ ret = [c \in Calls |-> NoOutcome]
    /\ out = [c \in Calls |-> NoOutcome]
    /\ fin = [c \in Calls |-> 0]
    /\ arxiv_searcher = ArxivSearcher

(* ------------------------------ actions -------------------------------- *)
\* search_arxiv(query, max_results) is invoked and runs up to requests.get
\* in ArxivSearcher.search
CallSearchArxiv(c, query, max_results) ==
    /\ pc[c] = "idle"
    /\ kind' = [kind EXCEPT ![c] = "search_arxiv"]
    /\ args' = [args EXCEPT ![c] = [query |-> query, max_results |-> max_results,
                                    paper_id |-> ""]]
    /\ req' = [req EXCEPT ![c] = Append(@, SearchRequest(query, max_results))]
    /\ pc' = [pc EXCEPT ![c] = "waiting"]
    /\ UNCHANGED <<resp, ret, out, fin, arxiv_searcher>>

\* read_arxiv_paper(paper_id) is invoked and runs up to requests.get in
\* ArxivSearcher.read_paper
CallReadArxivPaper(c, paper_id) ==
    /\ pc[c] = "idle"
    /\ kind' = [kind EXCEPT ![c] = "read_arxiv_paper"]
    /\ args' = [args EXCEPT ![c] = [query |-> "", max_results |-> 0,
                                    paper_id |-> paper_id]]
    /\ req' = [req EXCEPT ![c] = Append(@, PdfRequest(paper_id))]
    /\ pc' = [pc EXCEPT ![c] = "waiting"]
    /\ UNCHANGED <<resp, ret, out, fin, arxiv_searcher>>

\* the remote side answers the search request of call c with r
FeedAnswer(c, r) ==
    /\ pc[c] = "waiting"
    /\ kind[c] = "search_arxiv"
    /\ resp' = [resp EXCEPT ![c] = r]
    /\ pc' = [pc EXCEPT ![c] = "answered"]
    /\ UNCHANGED <<kind, args, req, ret, out, fin, arxiv_searcher>>

\* the remote side answers the PDF request of call c with r
PdfAnswer(c, r) ==
    /\ pc[c] = "waiting"
    /\ kind[c] = "read_arxiv_paper"
    /\ resp' = [resp EXCEPT ![c] = r]
    /\ pc' = [pc EXCEPT ![c] = "answered"]
    /\ UNCHANGED <<kind, args, req, ret, out, fin, arxiv_searcher>>

\* the request of call c fails in transport: requests.get raises
RequestFails(c) ==
    /\ pc[c] = "waiting"
    /\ resp' = [resp EXCEPT ![c] = TransportFailure]
    /\ pc' = [pc EXCEPT ![c] = "answered"]
    /\ UNCHANGED <<kind, args, req, ret, out, fin, arxiv_searcher>>

\* variant of SearchReturns in which papers is an attribute shared through
\* the instance and never reset: a search returns what earlier searches
\* collected as well
SearchReturnsShared(c) ==
    /\ pc[c] = "answered"
    /\ kind[c] = "search_arxiv"
    /\ LET r == search(args[c].query, args[c].max_results, resp[c])
           kept == IF arxiv_searcher = {} THEN <<>>
                   ELSE (CHOOSE a \in arxiv_searcher : a[1] = "papers")[2]
       IN  /\ ret' = [ret EXCEPT ![c] = [r EXCEPT !.value = kept \o r.value]]
           /\ arxiv_searcher' =
                  IF r.raised THEN arxiv_searcher
                  ELSE {<<"papers", kept \o r.value>>}
    /\ pc' = [pc EXCEPT ![c] = "returned"]
    /\ UNCHANGED <<kind, args, req, resp, out, fin>>

\* variant of SearchReturns that repeats the request once after a transport
\* failure
SearchReturnsRetry(c) ==
    /\ pc[c] = "answered"
    /\ kind[c] = "search_arxiv"
    /\ IF resp[c].err /\ Len(req[c]) < 2
       THEN /\ req' = [req EXCEPT ![c] = Append(@, req[c][1])]
            /\ resp' = [resp EXCEPT ![c] = NoResponse]
            /\ pc' = [pc EXCEPT ![c] = "waiting"]
            /\ UNCHANGED ret
       ELSE /\ ret' = [ret EXCEPT ![c] = search(args[c].query,
                                               args[c].max_results, resp[c])]
            /\ pc' = [pc EXCEPT ![c] = "returned"]
            /\ UNCHANGED <<req, resp>>
    /\ UNCHANGED <<kind, args, out, fin, arxiv_searcher>>

\* ArxivSearcher.search runs from the answer to its return or raise
SearchReturns(c) ==
    /\ pc[c] = "answered"
    /\ kind[c] = "search_arxiv"
    /\ ret' = [ret EXCEPT ![c] = search(args[c].query, args[c].max_results,
                                        resp[c])]
    /\ pc' = [pc EXCEPT ![c] = "returned"]
    /\ UNCHANGED <<kind, args, req, resp, out, fin, arxiv_searcher>>

\* ArxivSearcher.read_paper runs from the answer to its return
ReadPaperReturns(c) ==
    /\ pc[c] = "answered"
    /\ kind[c] = "read_arxiv_paper"
    /\ ret' = [ret EXCEPT ![c] = read_paper(args[c].paper_id, resp[c])]
    /\ pc' = [pc EXCEPT ![c] = "returned"]
    /\ UNCHANGED <<kind, args, req, resp, out, fin, arxiv_searcher>>

\* search_arxiv finishes with the adapter's outcome
SearchArxivFinishes(c) ==
    /\ pc[c] = "returned"
    /\ kind[c] = "search_arxiv"
    /\ out' = [out EXCEPT ![c] = search_arxiv(ret[c])]
    /\ fin' = [fin EXCEPT ![c] = @ + 1]
    /\ pc' = [pc EXCEPT ![c] = "done"]
    /\ UNCHANGED <<kind, args, req, resp, ret, arxiv_searcher>>

\* read_arxiv_paper finishes with the adapter's outcome
ReadArxivPaperFinishes(c) ==
    /\ pc[c] = "returned"
    /\ kind[c] = "read_arxiv_paper"
    /\ out' = [out EXCEPT ![c] = read_arxiv_paper(ret[c])]
    /\ fin' = [fin EXCEPT ![c] = @ + 1]
    /\ pc' = [pc EXCEPT ![c] = "done"]
    /\ UNCHANGED <<kind, args, req, resp, ret, arxiv_searcher>>

(* --------------------------- specifications ---------------------------- *)
\* several tool calls on the shared instance, in any interleaving
Next ==
    \E c \in Calls :
        \/ \E q \in Queries : CallSearchArxiv(c, q, MaxResultsArg)
        \/ \E id \in PaperIds : CallReadArxivPaper(c, id)
        \/ \E r \in SampleSearchAnswers : FeedAnswer(c, r)
        \/ \E r \in SamplePdfAnswers : PdfAnswer(c, r)
        \/ RequestFails(c)
        \/ SearchReturns(c)
        \/ ReadPaperReturns(c)
        \/ SearchArxivFinishes(c)
        \/ ReadArxivPaperFinishes(c)

Spec == Init /\ [][Next]_vars

\* the steps of call c that are the program's own code
CallRuns(c) ==
    \/ SearchReturns(c)
    \/ ReadPaperReturns(c)
    \/ SearchArxivFinishes(c)
    \/ ReadArxivPaperFinishes(c)

\* code that is ready to run does run: while some call has a step of its
\* own to take, one such step is taken; whether the remote side answers is
\* not assumed
Fairness == WF_vars(\E c \in Calls : CallRuns(c))

\* several tool calls in any interleaving, for the check of progress
LiveNext ==
    \E c \in Calls :
        \/ \E q \in Queries : CallSearchArxiv(c, q, MaxResultsArg)
        \/ CallReadArxivPaper(c, "2107.1v1")
        \/ \E r \in ProgressSearchAnswers : FeedAnswer(c, r)
        \/ \E r \in ProgressPdfAnswers : PdfAnswer(c, r)
        \/ RequestFails(c)
        \/ SearchReturns(c)
        \/ ReadPaperReturns(c)
        \/ SearchArxivFinishes(c)
        \/ ReadArxivPaperFinishes(c)

LiveSpec == Init /\ [][LiveNext]_vars /\ Fairness

\* one search call, answered with any feed of at most MaxEntries entries
SearchNext ==
    \/ \E q \in Queries, n \in MaxResultsArgs : CallSearchArxiv(1, q, n)
    \/ \E r \in SearchAnswers(Feeds(MaxEntries)) : FeedAnswer(1, r)
    \/ RequestFails(1)
    \/ SearchReturns(1)
    \/ SearchArxivFinishes(1)

SearchSpec == Init /\ [][SearchNext]_vars

\* one read call, answered with any document of at most MaxPages pages
ReadNext ==
    \/ \E id \in PaperIds : CallReadArxivPaper(1, id)
    \/ \E r \in PdfAnswers(Documents(MaxPages)) : PdfAnswer(1, r)
    \/ RequestFails(1)
    \/ ReadPaperReturns(1)
    \/ ReadArxivPaperFinishes(1)

ReadSpec == Init /\ [][ReadNext]_vars

TypeOK ==
    /\ pc \in [Calls -> {"idle", "waiting", "answered", "returned", "done"}]
    /\ kind \in [Calls -> {"none", "search_arxiv", "read_arxiv_paper"}]
    /\ fin \in [Calls -> 0..1]

(* ===================== properties of the search path =================== *)
\* a search call whose adapter method has returned or raised
SearchEnded(c) == kind[c] = "search_arxiv" /\ pc[c] \in {"returned", "done"}

\* a read call whose adapter method has returned or raised
ReadEnded(c) == kind[c] = "read_arxiv_paper" /\ pc[c] \in {"returned", "done"}

\* position i of s holds a digit
IsDigitAt(s, i) == i >= 1 /\ i <= Len(s) /\ s[i] \in Digits

\* position i of s holds one of the characters lits
LitAt(s, i, lits) == i >= 1 /\ i <= Len(s) /\ s[i] \in lits

\* length of the run of one or two digits at i; 0 when there is no digit
FieldLen(s, i) ==
    IF IsDigitAt(s, i) /\ IsDigitAt(s, i + 1) THEN 2
    ELSE IF IsDigitAt(s, i) THEN 1
    ELSE 0

\* the day may be a space followed by one digit
DayLen(s, i) ==
    IF LitAt(s, i, {" "}) /\ IsDigitAt(s, i + 1) THEN 2
    ELSE FieldLen(s, i)

DayVal(s, i, n) ==
    IF LitAt(s, i, {" "}) THEN DigitVal(s[i + 1]) ELSE NumAt(s, i, n)

\* s read from left to right as YYYY-MM-DDTHH:MM:SSZ: a four-digit year,
\* then month, day, hour, minute and second of one or two digits each
\* between the literals; ok when s has this shape and names an existing
\* date and time
ScanTimestamp(s) ==
    LET pm == 6
        lm == FieldLen(s, pm)
        pd == pm + lm + 1
        ld == DayLen(s, pd)
        pH == pd + ld + 1
        lH == FieldLen(s, pH)
        pM == pH + lH + 1
        lM == FieldLen(s, pM)
        pS == pM + lM + 1
        lS == FieldLen(s, pS)
        end == pS + lS
        shape == /\ \A i \in 1..4 : IsDigitAt(s, i)
                 /\ LitAt(s, 5, {"-"})
                 /\ lm > 0 /\ LitAt(s, pm + lm, {"-"})
                 /\ ld > 0 /\ LitAt(s, pd + ld, {"T", "t"})
                 /\ lH > 0 /\ LitAt(s, pH + lH, {":"})
                 /\ lM > 0 /\ LitAt(s, pM + lM, {":"})
                 /\ lS > 0 /\ LitAt(s, end, {"Z", "z"})
                 /\ Len(s) = end
        Y == NumAt(s, 1, 4)
        m == NumAt(s, pm, lm)
        d == DayVal(s, pd, ld)
        H == NumAt(s, pH, lH)
        M == NumAt(s, pM, lM)
        S == NumAt(s, pS, lS)
    IN  IF /\ shape
           /\ m \in 1..12 /\ d \in 1..31 /\ H \in 0..23
           /\ M \in 0..59 /\ S \in 0..61
           /\ Y >= 1 /\ d <= DaysInMonth(Y, m) /\ S <= 59
        THEN [ok |-> TRUE, Y |-> Y, m |-> m, d |-> d, H |-> H, M |-> M, S |-> S]
        ELSE NoDatetime

\* s is a timestamp in the format YYYY-MM-DDTHH:MM:SSZ
IsTimestamp(s) == ScanTimestamp(s).ok

\* position of the first application/pdf link, 0 when there is none
FirstPdfIndex(links) ==
    IF \E i \in 1..Len(links) : links[i].type = PdfType
    THEN CHOOSE i \in 1..Len(links) :
            /\ links[i].type = PdfType
            /\ \A j \in 1..(i - 1) : links[j].type # PdfType
    ELSE 0

\* an entry every statement of the try block can read
WellFormed(e) ==
    /\ {"authors", "published", "links", "id", "title", "summary", "tags"}
           \subseteq e.has
    /\ \A i \in 1..Len(e.authors) : e.authors[i].hasName
    /\ IsTimestamp(e.published)
    /\ IsTimestamp(IF "updated" \in e.has THEN e.updated ELSE e.published)
    /\ FirstPdfIndex(e.links) # 0 => e.links[FirstPdfIndex(e.links)].hasHref

PaperFields ==
    {"paper_id", "title", "authors", "abstract", "url", "pdf_url",
     "published_date", "updated_date", "source", "categories", "keywords", "doi"}

\* record p is the complete record of entry e
BuiltFrom(p, e) ==
    /\ DOMAIN p = PaperFields
    /\ p.title = e.title
    /\ p.url = e.id
    /\ p.abstract = e.summary
    /\ Len(p.authors) = Len(e.authors)
    /\ \A i \in 1..Len(e.authors) : p.authors[i] = e.authors[i].name
    /\ p.categories = e.tags
    /\ p.keywords = <<>>
    /\ p.published_date.ok
    /\ p.updated_date.ok

\* the records are those of the entries es, one each, in the same order
BuiltInOrder(papers, es) ==
    /\ Len(papers) = Len(es)
    /\ \A i \in 1..Len(es) : BuiltFrom(papers[i], es[i])

\* C1: when the search request fails (transport error or non-success
\* status), search raises, returning no list, and search_arxiv raises too.
C1_FailedSearchRaises ==
    \A c \in Calls :
        (SearchEnded(c) /\ (resp[c].err \/ resp[c].status \notin 200..299))
            => /\ ret[c].raised
               /\ pc[c] = "done" => out[c].raised

\* C2: for a feed holding a malformed entry, search does not raise and
\* returns exactly the records of the well-formed entries in feed order; a
\* malformed entry contributes no record, not even a partial one.
C2_MalformedSkipped ==
    \A c \in Calls :
        (/\ SearchEnded(c)
         /\ ~resp[c].err
         /\ \E i \in 1..Len(resp[c].entries) : ~WellFormed(resp[c].entries[i]))
            => /\ ~ret[c].raised
               /\ BuiltInOrder(ret[c].value, SelectSeq(resp[c].entries, WellFormed))

\* a feed with a malformed entry between two well-formed ones was searched
C2_Witness ==
    /\ SearchEnded(1)
    /\ Len(resp[1].entries) = 3
    /\ WellFormed(resp[1].entries[1])
    /\ ~WellFormed(resp[1].entries[2])
    /\ WellFormed(resp[1].entries[3])
    /\ resp[1].entries[1] # resp[1].entries[3]
    /\ Len(ret[1].value) = 2

\* C3: for a feed of N well-formed entries, search returns N records, the
\* i-th built from the i-th entry, each with source "arxiv".
C3_AllInFeedOrder ==
    \A c \in Calls :
        (/\ SearchEnded(c)
         /\ ~resp[c].err
         /\ \A i \in 1..Len(resp[c].entries) : WellFormed(resp[c].entries[i]))
            => /\ ~ret[c].raised
               /\ BuiltInOrder(ret[c].value, resp[c].entries)
               /\ \A i \in 1..Len(ret[c].value) : ret[c].value[i].source = "arxiv"

\* a feed of three different well-formed entries was searched
C3_Witness ==
    /\ SearchEnded(1)
    /\ Len(resp[1].entries) = 3
    /\ \A i \in 1..3 : WellFormed(resp[1].entries[i])
    /\ Cardinality({resp[1].entries[i].title : i \in 1..3}) = 3
    /\ Len(ret[1].value) = 3

\* C4: whatever the feed holds, search returns at most max_results records.
C4_AtMostMaxResults ==
    \A c \in Calls :
        (SearchEnded(c) /\ ~ret[c].raised)
            => Len(ret[c].value) <= args[c].max_results

\* seg is the part of id after its last '/', all of id when it has none
IsLastSegment(seg, id) ==
    \E k \in 0..Len(id) :
        /\ seg = SubSeq(id, k + 1, Len(id))
        /\ \A i \in (k + 1)..Len(id) : id[i] # "/"
        /\ k > 0 => id[k] = "/"

\* C6: every record search returns has a non-empty paper_id, the last
\* '/'-separated segment of the entry's identifier.
C6_PaperIdNonEmpty ==
    \A c \in Calls :
        (SearchEnded(c) /\ ~ret[c].raised)
            => \A i \in 1..Len(ret[c].value) :
                   /\ ret[c].value[i].paper_id # <<>>
                   /\ IsLastSegment(ret[c].value[i].paper_id, ret[c].value[i].url)

ReadFailed(r) ==
    \/ r.err
    \/ r.status >= 400
    \/ ~r.pdfok
    \/ \E i \in 1..Len(r.pages) : r.pages[i].raises

\* C5: read_paper and read_arxiv_paper never raise; when the fetch fails or
\* the bytes cannot be decoded, they return the empty string.
C5_ReadNeverRaises ==
    \A c \in Calls :
        /\ ReadEnded(c) => ~ret[c].raised
        /\ (kind[c] = "read_arxiv_paper" /\ pc[c] = "done") => ~out[c].raised
        /\ (ReadEnded(c) /\ ReadFailed(resp[c]))
               => /\ ret[c].value = <<>>
                  /\ pc[c] = "done" => out[c].value = <<>>

\* a read call finished after the fetch was answered with status 404
C5_Witness ==
    /\ kind[1] = "read_arxiv_paper"
    /\ pc[1] = "done"
    /\ resp[1].status = 404
    /\ out[1].value = <<>>

\* the texts ts, each followed by a newline, one after the other
RECURSIVE Joined(_)
Joined(ts) ==
    IF ts = <<>> THEN <<>> ELSE Head(ts) \o <<"\n">> \o Joined(Tail(ts))

\* t is s without its leading and trailing whitespace
IsTrimmed(t, s) ==
    IF \A i \in 1..Len(s) : s[i] \in Whitespace
    THEN t = <<>>
    ELSE \E i \in 1..Len(s), j \in 1..Len(s) :
            /\ i <= j
            /\ s[i] \notin Whitespace /\ s[j] \notin Whitespace
            /\ \A k \in 1..(i - 1) : s[k] \in Whitespace
            /\ \A k \in (j + 1)..Len(s) : s[k] \in Whitespace
            /\ t = SubSeq(s, i, j)

NonEmptyText(t) == t # <<>>

\* C7: on a successful fetch and decode, read_paper returns the page texts in
\* page order, each non-empty one followed by a newline, the empty ones
\* left out, the whole without leading and trailing whitespace.
C7_PagesJoinedTrimmed ==
    \A c \in Calls :
        (ReadEnded(c) /\ ~ReadFailed(resp[c]))
            => LET texts == [i \in 1..Len(resp[c].pages) |-> resp[c].pages[i].text]
               IN  /\ ~ret[c].raised
                   /\ IsTrimmed(ret[c].value,
                                Joined(SelectSeq(texts, NonEmptyText)))

\* a document was read that has a page without text between two pages with
\* text, the first of which starts with whitespace
C7_Witness ==
    /\ ReadEnded(1)
    /\ ~ReadFailed(resp[1])
    /\ Len(resp[1].pages) = 3
    /\ resp[1].pages[1].text = <<" ", "c", " ">>
    /\ resp[1].pages[2].text = <<>>
    /\ resp[1].pages[3].text = <<"b", "\n">>
    /\ ret[1].value = <<"c", " ", "\n", "b">>

(* ======================= properties of concurrent calls ================ *)
\* what call c computes from its own arguments and the answer to its own
\* request
OwnAdapterOutcome(c) ==
    IF kind[c] = "search_arxiv"
    THEN search(args[c].query, args[c].max_results, resp[c])
    ELSE read_paper(args[c].paper_id, resp[c])

OwnToolOutcome(c) ==
    IF kind[c] = "search_arxiv"
    THEN search_arxiv(OwnAdapterOutcome(c))
    ELSE read_arxiv_paper(OwnAdapterOutcome(c))

\* the state that belongs to call c
CallState(c) ==
    <<pc[c], kind[c], args[c], req[c], resp[c], ret[c], out[c], fin[c]>>

\* every result is determined by the call's own arguments and answer, and
\* the shared instance holds nothing
IndependentResults ==
    /\ arxiv_searcher = ArxivSearcher
    /\ \A c \in Calls :
           /\ pc[c] \in {"returned", "done"} => ret[c] = OwnAdapterOutcome(c)
           /\ pc[c] = "done" => out[c] = OwnToolOutcome(c)

\* a step changes the state of one call only, and not the shared instance
OwnStateOnly ==
    /\ arxiv_searcher' = arxiv_searcher
    /\ \E c \in Calls : \A d \in Calls \ {c} : CallState(d)' = CallState(d)

\* C9: concurrent calls on the shared ArxivSearcher are independent: each
\* result depends only on the call's own arguments and the answer to its
\* own request, and no call changes another call's state or the instance.
C9_CallsIndependent == []IndependentResults /\ [][OwnStateOnly]_vars

\* a search finished while another search, started before it finished and
\* answered with another feed, was still running; both return their own
C9_Witness ==
    /\ kind[1] = "search_arxiv" /\ pc[1] = "done"
    /\ kind[2] = "search_arxiv" /\ pc[2] = "returned"
    /\ resp[1].entries = <<EntryA>>
    /\ resp[2].entries = <<EntryB, EntryNoPublished, EntryC>>
    /\ Len(out[1].value) = 1
    /\ Len(ret[2].value) = 2

\* state predicates and steps of the life of a call
OneRequestEach ==
    \A c \in Calls : Len(req[c]) = IF pc[c] = "idle" THEN 0 ELSE 1

FinishedOnce ==
    \A c \in Calls : fin[c] = IF pc[c] = "done" THEN 1 ELSE 0

EndsOnlyAfterAnswer ==
    \A c \in Calls :
        /\ pc[c] \in {"returned", "done"} => resp[c] # NoResponse
        /\ pc[c] \in {"idle", "waiting"} => resp[c] = NoResponse
        /\ (pc[c] = "done" /\ out[c].raised) => kind[c] = "search_arxiv"

\* a waiting call only waits or is answered; a finished call stays as it is
NoCancelNoRestart ==
    \A c \in Calls :
        /\ pc[c] = "waiting" => pc'[c] \in {"waiting", "answered"}
        /\ pc[c] = "done" => CallState(c)' = CallState(c)

\* C10: a started call issues exactly one remote request; once the request
\* is answered or fails the call eventually finishes, exactly once; there
\* is no retry and no cancellation; a call never finishes without an answer.
C10_OneRequestThenFinish ==
    /\ [](OneRequestEach /\ FinishedOnce /\ EndsOnlyAfterAnswer)
    /\ [][NoCancelNoRestart]_vars
    /\ \A c \in Calls : (pc[c] = "answered") ~> (pc[c] = "done")

\* one call has finished after a failed request while another call, whose
\* request is unanswered, still waits
C10_Witness ==
    /\ pc[1] = "done" /\ fin[1] = 1 /\ Len(req[1]) = 1 /\ resp[1].err
    /\ pc[2] = "waiting" /\ fin[2] = 0 /\ Len(req[2]) = 1

====
